---- MODULE Spec2Model ----
(***************************************************************************)
(* Key-exchange relay (keyexchange): the channel relay engine behind the   *)
(* functional tests of keyexchange/tests/test_keyexchange.py.              *)
(*                                                                         *)
(* The request handler (keyexchange/wsgiapp.py) is not among the sources:  *)
(* its steps are written from the design document, and fixed by the tests  *)
(* wherever the tests decide a behaviour (the creator counts as the first  *)
(* participant, a wrong-size identifier kills the channel, the poll        *)
(* counter lives under its own key, six reads at most).                    *)
(*                                                                         *)
(* A handler is a sequence of backend calls.  Step(S, w) performs the next *)
(* backend call of the request held by worker w on the backend S; Run      *)
(* iterates Step until the response is complete.  Spec serves one request  *)
(* at a time (each request is one action: Run), SpecConc interleaves the   *)
(* backend calls of several workers.                                       *)
(***************************************************************************)
EXTENDS Integers, Sequences, FiniteSets, TLC

(***************************************************************************)
(* Bounds and protocol constants                                           *)
(***************************************************************************)
MaxCid == 1            \* channel ids that can be issued
NumWorkers == 2        \* concurrent request workers (SpecConc)
MaxWrites == 3         \* successful writes followed per channel (SpecCas)
NumInst == 2           \* Blacklist instances sharing the backend
MaxIp == 2             \* IP addresses
MaxTtl == 1            \* longest ttl given to add
MaxTime == 1           \* clock ticks and expiry times followed
NumThreads == 2
MaxFails == 1          \* cas refusals followed (SpecDirty)

\* Variants: an identifier one short is accepted; one read fewer is allowed.
KeyLenShort == 256 - 1
MaxGetsFive == 6 - 1

KeyLen == 256          \* required size of X-KeyExchange-Id
MaxGets == 6           \* "6 gets max !"

Cids == 1..MaxCid
NoCid == 0

\* An identifier 'b' * 256 is written <<"b", 256>>: a character and a length.
Ident(ch, n) == <<ch, n>>
IdLen(id) == id[2]
NoId == Ident("", 0)                       \* header absent
ValidIds == {Ident("a", KeyLen), Ident("b", KeyLen), Ident("c", KeyLen)}
BadIds == {NoId, Ident("e", KeyLen - 1), Ident("e", KeyLen + 1)}
Ids == ValidIds \cup BadIds

\* Request bodies; "" is the empty body.
Bodies == {"", "xxx"}

\* The version token is derived from the content alone (a content hash).
Etag(body) == <<"md5", body>>
NoTag == <<"absent", "">>                  \* no conditional header
EmptyTag == <<"raw", "">>                  \* If-None-Match: '' (no hash)
Tags == {NoTag, EmptyTag} \cup {Etag(b) : b \in Bodies}

\* Report payloads: the X-KeyExchange-Log header and the body.
NoLog == ""
LogHeaders == {NoLog, "some"}
LogBodies == {"", "more"}

(***************************************************************************)
(* Backend records                                                         *)
(***************************************************************************)
NoChannel == [exists |-> FALSE, ids |-> <<>>, data |-> "", etag |-> NoTag]

Channel(ids, data, etag) ==
    [exists |-> TRUE, ids |-> ids, data |-> data, etag |-> etag]

SeqRange(s) == {s[i] : i \in 1..Len(s)}

NoResp == [status |-> 0, etag |-> NoTag, body |-> "", channel |-> NoCid]

Resp(status, etag, body, channel) ==
    [status |-> status, etag |-> etag, body |-> body, channel |-> channel]

Req(op, cid, id, tag, body, hdr) ==
    [op |-> op, cid |-> cid, id |-> id, tag |-> tag, body |-> body, hdr |-> hdr,
     seq |-> -1]

NoReq == Req("none", NoCid, NoId, NoTag, "", NoLog)

\* A worker holding request r, before its first backend call.
Worker(r) ==
    [pc |-> "start", req |-> r, content |-> NoChannel, count |-> 0,
     resp |-> NoResp, calls |-> <<>>, late |-> FALSE]

IdleWorker == [Worker(NoReq) EXCEPT !.pc = "idle"]

\* The backend: channel records, the 'GET:<cid>' counters (0: no such key)
\* and the ids handed out so far.
Backend(chan, gets, issued) == [chan |-> chan, gets |-> gets, issued |-> issued]

Result(S, w) == [S |-> S, w |-> w]

Done(w, resp) == [w EXCEPT !.pc = "done", !.resp = resp]

(***************************************************************************)
(* Backend calls                                                           *)
(***************************************************************************)
CacheSet(S, cid, content) == [S EXCEPT !.chan[cid] = content]

\* cas: writes only if the stored value is still the expected one.
CacheCas(S, cid, expected, content) ==
    IF S.chan[cid] = expected THEN [S EXCEPT !.chan[cid] = content] ELSE S

CasSucceeds(S, cid, expected) == S.chan[cid] = expected

\* delete(id): idempotent, removes the channel record and its counter.
DeleteChannel(S, cid) ==
    IF cid \in Cids
    THEN [S EXCEPT !.chan[cid] = NoChannel, !.gets[cid] = 0]
    ELSE S

\* incr: adds one to an existing counter key, and does nothing without one.
CacheIncr(S, cid) == [S EXCEPT !.gets[cid] = IF @ > 0 THEN @ + 1 ELSE @]

Known(S, cid) == cid \in Cids /\ S.chan[cid].exists

(***************************************************************************)
(* Handler steps                                                           *)
(***************************************************************************)
ValidClientId(id) == id # NoId /\ IdLen(id) = KeyLen

\* GET /new_channel
FreshCid(S) == CHOOSE c \in Cids \ S.issued : \A d \in Cids \ S.issued : c <= d

NewChannel(S, w) ==
    IF ~ValidClientId(w.req.id)
    THEN Result(S, Done(w, Resp(400, NoTag, "", NoCid)))
    ELSE IF S.issued = Cids
    THEN Result(S, Done(w, Resp(503, NoTag, "", NoCid)))
    ELSE LET cid == FreshCid(S)
             content == Channel(<<w.req.id>>, "", Etag(""))
         IN Result([CacheSet(S, cid, content) EXCEPT !.issued = @ \cup {cid}],
                   Done(w, Resp(200, NoTag, "", cid)))

\* POST /report
LogParts(hdr, body) ==
    (IF hdr # NoLog THEN <<hdr>> ELSE <<>>) \o (IF body # "" THEN <<body>> ELSE <<>>)

\* Variant: the report is logged and the channel it names is left alone.
ReportKeepsChannel(S, w) ==
    LET log == LogParts(w.req.hdr, w.req.body)
    IN IF log = <<>>
       THEN Result(S, Done(w, Resp(400, NoTag, "", NoCid)))
       ELSE Result(S, [w EXCEPT !.calls = Append(@, log),
                                !.resp = Resp(200, NoTag, "", NoCid),
                                !.pc = "done"])

Report(S, w) ==
    LET log == LogParts(w.req.hdr, w.req.body)
    IN IF log = <<>>
       THEN Result(S, Done(w, Resp(400, NoTag, "", NoCid)))
       ELSE LET logged == [w EXCEPT !.calls = Append(@, log),
                                    !.resp = Resp(200, NoTag, "", NoCid)]
            IN IF w.req.cid # NoCid
               THEN Result(S, [logged EXCEPT !.pc = "delete"])
               ELSE Result(S, [logged EXCEPT !.pc = "done"])

\* The call that removes the channel once the response is computed.
DeleteStep(S, w) == Result(DeleteChannel(S, w.req.cid), [w EXCEPT !.pc = "done"])

\* Variant: If-Match is not looked at, every put is stored.
DispatchIgnoresIfMatch(S, w) ==
    IF w.req.op = "get"
    THEN IF w.req.tag # NoTag /\ w.req.tag = w.content.etag
         THEN Result(S, Done(w, Resp(304, w.content.etag, "", NoCid)))
         ELSE Result(S, [w EXCEPT !.pc = "count"])
    ELSE Result(S, [w EXCEPT !.pc = "store"])

\* Variant: the poll counter is kept before If-None-Match is compared.
DispatchCountsEveryRead(S, w) ==
    IF w.req.op = "get"
    THEN IF w.req.tag # NoTag /\ w.req.tag = w.content.etag
         THEN Result([S EXCEPT !.gets[w.req.cid] = @ + 1],
                     Done(w, Resp(304, w.content.etag, "", NoCid)))
         ELSE Result(S, [w EXCEPT !.pc = "count"])
    ELSE IF w.req.tag # NoTag /\ w.req.tag # w.content.etag
         THEN Result(S, Done(w, Resp(412, w.content.etag, "", NoCid)))
         ELSE Result(S, [w EXCEPT !.pc = "store"])

\* After the identifier is accepted: the conditional headers are compared
\* with the record the handler holds.
Dispatch(S, w) ==
    IF w.req.op = "get"
    THEN IF w.req.tag # NoTag /\ w.req.tag = w.content.etag
         THEN Result(S, Done(w, Resp(304, w.content.etag, "", NoCid)))
         ELSE Result(S, [w EXCEPT !.pc = "count"])
    ELSE IF w.req.tag # NoTag /\ w.req.tag # w.content.etag
         THEN Result(S, Done(w, Resp(412, w.content.etag, "", NoCid)))
         ELSE Result(S, [w EXCEPT !.pc = "store"])

\* Variant: room for three identifiers.
CheckClientIdThree(S, w) ==
    LET cid == w.req.cid
        id == w.req.id
    IN IF ~ValidClientId(id)
       THEN Result(DeleteChannel(S, cid), Done(w, Resp(400, NoTag, "", NoCid)))
       ELSE IF ~Known(S, cid)
       THEN Result(S, Done(w, Resp(404, NoTag, "", NoCid)))
       ELSE LET content == S.chan[cid]
                held == [w EXCEPT !.content = content]
            IN IF id \in SeqRange(content.ids)
               THEN Dispatch(S, held)
               ELSE IF Len(content.ids) < 3
               THEN Result(S, [held EXCEPT !.content.ids = Append(@, id),
                                           !.pc = "register"])
               ELSE Result(S, [held EXCEPT !.pc = "delete",
                                           !.resp = Resp(400, NoTag, "", NoCid)])

\* Variant: a malformed identifier is refused before the backend is touched.
CheckClientIdKeeps(S, w) ==
    LET cid == w.req.cid
        id == w.req.id
    IN IF ~ValidClientId(id)
       THEN Result(S, Done(w, Resp(400, NoTag, "", NoCid)))
       ELSE IF ~Known(S, cid)
       THEN Result(S, Done(w, Resp(404, NoTag, "", NoCid)))
       ELSE LET content == S.chan[cid]
                held == [w EXCEPT !.content = content]
            IN IF id \in SeqRange(content.ids)
               THEN Dispatch(S, held)
               ELSE IF Len(content.ids) < 2
               THEN Result(S, [held EXCEPT !.content.ids = Append(@, id),
                                           !.pc = "register"])
               ELSE Result(S, [held EXCEPT !.pc = "delete",
                                           !.resp = Resp(400, NoTag, "", NoCid)])

\* Validates the identifier, or registers it as the second participant.
CheckClientId(S, w) ==
    LET cid == w.req.cid
        id == w.req.id
    IN IF ~ValidClientId(id)
       THEN Result(DeleteChannel(S, cid), Done(w, Resp(400, NoTag, "", NoCid)))
       ELSE IF ~Known(S, cid)
       THEN Result(S, Done(w, Resp(404, NoTag, "", NoCid)))
       ELSE LET content == S.chan[cid]
                held == [w EXCEPT !.content = content]
            IN IF id \in SeqRange(content.ids)
               THEN Dispatch(S, held)
               ELSE IF Len(content.ids) < 2
               THEN Result(S, [held EXCEPT !.content.ids = Append(@, id),
                                           !.pc = "register"])
               ELSE Result(S, [held EXCEPT !.pc = "delete",
                                           !.resp = Resp(400, NoTag, "", NoCid)])

RegisterId(S, w) == Dispatch(CacheSet(S, w.req.cid, w.content), w)

\* GET /<cid>: the poll counter, then the data the handler holds.
GetCount(S, w) ==
    Result(S, [w EXCEPT !.count = S.gets[w.req.cid], !.pc = "incr"])

GetIncr(S, w) ==
    LET cid == w.req.cid
        answer == Resp(200, w.content.etag, w.content.data, NoCid)
    IN IF w.count = 0
       THEN Result([S EXCEPT !.gets[cid] = 1], Done(w, answer))
       ELSE IF w.count + 1 >= MaxGets
       THEN Result(S, [w EXCEPT !.pc = "delete", !.resp = answer])
       ELSE Result(CacheIncr(S, cid), Done(w, answer))

\* PUT /<cid>: replaces the content; a compare-and-swap when If-Match is given.
PutStore(S, w) ==
    LET cid == w.req.cid
        etag == Etag(w.req.body)
        content == [w.content EXCEPT !.data = w.req.body, !.etag = etag]
    IN IF w.req.tag = NoTag
       THEN Result(CacheSet(S, cid, content), Done(w, Resp(200, etag, "", NoCid)))
       ELSE IF CasSucceeds(S, cid, w.content)
       THEN Result(CacheCas(S, cid, w.content, content),
                   Done(w, Resp(200, etag, "", NoCid)))
       ELSE IF Known(S, cid)
       THEN Result(S, Done(w, Resp(412, S.chan[cid].etag, "", NoCid)))
       ELSE Result(S, Done(w, Resp(404, NoTag, "", NoCid)))

\* The next backend call of worker w's request.
Step(S, w) ==
    CASE w.pc = "start" /\ w.req.op = "new" -> NewChannel(S, w)
      [] w.pc = "start" /\ w.req.op = "report" -> Report(S, w)
      [] w.pc = "start" /\ w.req.op \in {"get", "put"} -> CheckClientId(S, w)
      [] w.pc = "register" -> RegisterId(S, w)
      [] w.pc = "count" -> GetCount(S, w)
      [] w.pc = "incr" -> GetIncr(S, w)
      [] w.pc = "store" -> PutStore(S, w)
      [] w.pc = "delete" -> DeleteStep(S, w)
      [] OTHER -> Result(S, w)

RECURSIVE Run(_, _)
Run(S, w) ==
    IF w.pc \in {"done", "idle"} THEN Result(S, w)
    ELSE LET r == Step(S, w) IN Run(r.S, r.w)

(***************************************************************************)
(* filtering/blacklist.py: the Blacklist's local state and its methods.    *)
(* ttls maps an IP to NoEntry (no key), None (no expiry) or an absolute    *)
(* expiry time.                                                            *)
(***************************************************************************)
Insts == 1..NumInst
IPs == 1..MaxIp
Ttls == 1..MaxTtl

NoEntry == -2
None == -1

NoTtls == [ip \in IPs |-> NoEntry]

\* Blacklist.__init__
NewBlacklist(server) ==
    [ips |-> {}, ttls |-> NoTtls, dirty |-> FALSE, server |-> server]

\* The value under 'keyexchange:blacklist': (ips, ttls), or NoData.
NoData == [present |-> FALSE, ips |-> {}, ttls |-> NoTtls]

Data(ips, ttls) == [present |-> TRUE, ips |-> ips, ttls |-> ttls]

\* dict.update(ttls)
DictUpdate(mine, theirs) ==
    [ip \in IPs |-> IF theirs[ip] # NoEntry THEN theirs[ip] ELSE mine[ip]]

MergeReplaces(L, data) == [L EXCEPT !.ips = data.ips, !.ttls = data.ttls]

\* Blacklist.update, lines 101-105: self.ips.union(ips) builds a new set and
\* drops it; only the TTL map is updated in place.
Merge(L, data) ==
    [L EXCEPT !.ttls = DictUpdate(@, data.ttls)]

BlUpdate(L, data) ==
    IF ~L.server \/ ~data.present THEN L
    ELSE IF data.ips \subseteq L.ips THEN L
    ELSE Merge(L, data)

BlAddNoTtl(L, ip, ttl, t) == [L EXCEPT !.ips = @ \cup {ip}, !.dirty = TRUE]

BlAdd(L, ip, ttl, t) ==
    [L EXCEPT !.ips = @ \cup {ip},
              !.ttls[ip] = IF ttl # None THEN t + ttl ELSE None,
              !.dirty = TRUE]

\* set.remove and del raise KeyError on a missing element; the statements
\* after the raise are not run.
BlRemove(L, ip) ==
    IF ip \notin L.ips THEN L
    ELSE IF L.ttls[ip] = NoEntry THEN [L EXCEPT !.ips = @ \ {ip}]
    ELSE [L EXCEPT !.ips = @ \ {ip}, !.ttls[ip] = NoEntry, !.dirty = TRUE]

\* remove, lines 143-144: set.remove or del raises KeyError.
RemoveRaises(L, ip) == ip \notin L.ips \/ L.ttls[ip] = NoEntry

\* __contains__, line 154: self._ttls[elmt] raises KeyError.
ContainsRaises(L, ip) == ip \in L.ips /\ L.ttls[ip] = NoEntry

Expired(expiry, t) == expiry - t <= 0

\* Variant: a membership check that leaves the expired entry in place.
BlContainsKeeps(L, ip, t) ==
    IF ip \notin L.ips THEN [L |-> L, ret |-> "False"]
    ELSE IF L.ttls[ip] = NoEntry THEN [L |-> L, ret |-> "KeyError"]
    ELSE IF L.ttls[ip] = None THEN [L |-> L, ret |-> "True"]
    ELSE IF Expired(L.ttls[ip], t) THEN [L |-> L, ret |-> "False"]
    ELSE [L |-> L, ret |-> "True"]

\* Blacklist.__contains__
BlContains(L, ip, t) ==
    IF ip \notin L.ips THEN [L |-> L, ret |-> "False"]
    ELSE IF L.ttls[ip] = NoEntry THEN [L |-> L, ret |-> "KeyError"]
    ELSE IF L.ttls[ip] = None THEN [L |-> L, ret |-> "True"]
    ELSE IF Expired(L.ttls[ip], t) THEN [L |-> BlRemove(L, ip), ret |-> "False"]
    ELSE [L |-> L, ret |-> "True"]

\* Blacklist.__len__
BlLen(L) == Cardinality(L.ips)

\* One call of Blacklist.save: where it stands, the failed attempts counted
\* by tries, and the backend calls it has made; once it has returned, only
\* whether it gave up.
NoSave ==
    [pc |-> "idle", tries |-> 0, cas |-> 0, gets |-> 0, snap |-> NoData,
     outcome |-> "none"]

\* A membership check a request thread has just made: the instance, the
\* address, the answer, and the instance's state when it was called.
NoCall == [inst |-> 0, ip |-> 0, ret |-> "none", pre |-> NewBlacklist(FALSE)]

Call(inst, ip, ret, pre) == [inst |-> inst, ip |-> ip, ret |-> ret, pre |-> pre]

\* Whether an instance has completed a save and an update since the last add.
NoSync == [saved |-> FALSE, pulled |-> FALSE]

\* The _Syncer thread once Blacklist.__init__ has started it: run has not
\* begun; late tells whether it has saved after a join had returned.
\* The RateLimiter after construction: no address counted, no request admitted.
NewLimiter ==
    [hits |-> [ip \in IPs |-> 0], bads |-> [ip \in IPs |-> 0],
     ip |-> 0, at |-> 0, seen |-> [hits |-> 0, bads |-> 0],
     pre |-> NewBlacklist(FALSE)]

Threads == 1..NumThreads

\* A thread of the process: where it stands in the Blacklist method it called.
NoThread ==
    [pc |-> "idle", op |-> "none", outer |-> "none", ip |-> 0, ttl |-> None,
     tries |-> 0, ok |-> FALSE, snap |-> NoData, raised |-> FALSE]

\* threading.RLock(): no owner, and how many times the owner holds it.
NewLock == [owner |-> 0, depth |-> 0, th |-> [t \in Threads |-> NoThread]]

NewSyncer == [pc |-> "started", running |-> FALSE, late |-> FALSE]

(***************************************************************************)
(* State                                                                   *)
(***************************************************************************)
VARIABLES
    chan,      \* cid -> channel record (NoChannel: no such key)
    gets,      \* cid -> poll counter key 'GET:<cid>' (0: no such key)
    issued,    \* channel ids handed out by new_channel
    closed,    \* history: channel ids whose record was removed at some time
    req,       \* Spec: the request served last
    resp,      \* Spec: its response
    calls,     \* Spec: the reports it forwarded to the logging collaborator
    pre,       \* Spec: the channels and counters just before it was served
    wk,        \* SpecConc: worker -> request in flight
    wseq,      \* SpecCas history: cid -> successful writes so far
    held,      \* SpecCas history: the tag a client kept from a read
    main,      \* SpecSession: the test's main thread
    cl,        \* SpecSession: the Sender and Receiver threads
    now,       \* time.time()
    store,     \* the backend's value under 'keyexchange:blacklist'
    bl,        \* instance -> the Blacklist's ips, _ttls, _dirty, _cache_server
    sv,        \* instance -> the save call in progress
    last,      \* the membership check a request thread has just made
    fails,     \* SpecDirty history: cas attempts the backend has refused
    sy,        \* SpecSyncer: instance -> the _Syncer thread
    jn,        \* SpecSyncer: instance -> the caller of _Syncer.join
    sync,      \* SpecShared history: instance -> saved, pulled since the last add
    perm,      \* SpecForever history: <<instance, ip>> added with ttl=None
    lim,       \* SpecLimiter: the RateLimiter's counters and its last admission
    lk         \* SpecLock: the RLock of the watched instance and its threads

Hist == <<sync, perm, lim, lk>>

Filtering == <<now, store, bl, sv, last, fails, sy, jn, Hist>>

vars ==
    <<chan, gets, issued, closed, req, resp, calls, pre, wk, wseq, held, main, cl,
      Filtering>>

Workers == 1..NumWorkers

TheBackend == Backend(chan, gets, issued)

NoSnapshot == [chan |-> [c \in Cids |-> NoChannel], gets |-> [c \in Cids |-> 0]]

Snapshot == [chan |-> chan, gets |-> gets]

NoHeld == [cid |-> NoCid, tag |-> NoTag, seq |-> -1]

\* A User thread (Sender or Receiver) of the session test.
Client(id, cid, timer) ==
    [id |-> id, cid |-> cid, pc |-> 1, phase |-> "ready", etag |-> EmptyTag,
     attempts |-> 0, timer |-> timer, got |-> <<>>, sent |-> <<>>]

Sender == 1
Receiver == 2
Parties == {Sender, Receiver}

Install(S) ==
    /\ chan' = S.chan
    /\ gets' = S.gets
    /\ issued' = S.issued
    /\ closed' = closed \cup {c \in Cids : chan[c].exists /\ ~S.chan[c].exists}

Init ==
    /\ chan = [c \in Cids |-> NoChannel]
    /\ gets = [c \in Cids |-> 0]
    /\ issued = {}
    /\ closed = {}
    /\ req = NoReq
    /\ resp = NoResp
    /\ calls = <<>>
    /\ pre = NoSnapshot
    /\ wk = [i \in Workers |-> IdleWorker]
    /\ wseq = [c \in Cids |-> 0]
    /\ held = NoHeld
    /\ main = "setup"
    /\ cl = [p \in Parties |-> Client(NoId, NoCid, 0)]
    /\ now = 0
    /\ store = NoData
    /\ bl = [i \in Insts |-> NewBlacklist(TRUE)]
    /\ sv = [i \in Insts |-> NoSave]
    /\ last = NoCall
    /\ fails = 0
    /\ sy = [i \in Insts |-> NewSyncer]
    /\ jn = [i \in Insts |-> "idle"]
    /\ sync = [i \in Insts |-> NoSync]
    /\ perm = {}
    /\ lim = NewLimiter
    /\ lk = NewLock

(***************************************************************************)
(* Spec: one request at a time                                             *)
(***************************************************************************)
Serve(r) ==
    LET fin == Run(TheBackend, Worker(r))
    IN /\ req = NoReq
       /\ Install(fin.S)
       /\ req' = r
       /\ resp' = fin.w.resp
       /\ calls' = fin.w.calls
       /\ pre' = Snapshot
       /\ UNCHANGED wk

NewRequests == {Req("new", NoCid, id, NoTag, "", NoLog) : id \in Ids}

GetRequests == {Req("get", c, id, t, "", NoLog) : c \in Cids, id \in Ids, t \in Tags}

PutRequests ==
    {Req("put", c[1], c[2], c[3], c[4], NoLog) : c \in Cids \X Ids \X Tags \X Bodies}

ReportRequests ==
    {Req("report", c[1], NoId, NoTag, c[2], c[3]) :
        c \in (Cids \cup {NoCid}) \X LogBodies \X LogHeaders}

\* The response has gone back to the caller: the next request can be served.
Respond ==
    /\ req # NoReq
    /\ req' = NoReq
    /\ resp' = NoResp
    /\ calls' = <<>>
    /\ pre' = NoSnapshot
    /\ UNCHANGED <<chan, gets, issued, closed, wk>>

\* The backend drops a channel record whose time to live has elapsed.
Expire(cid) ==
    /\ req = NoReq
    /\ chan[cid].exists
    /\ Install(CacheSet(TheBackend, cid, NoChannel))
    /\ UNCHANGED <<req, resp, calls, pre, wk>>

History == <<wseq, held, main, cl, Filtering>>

Next ==
    \/ \E r \in NewRequests : Serve(r) /\ UNCHANGED History
    \/ \E r \in GetRequests : Serve(r) /\ UNCHANGED History
    \/ \E r \in PutRequests : Serve(r) /\ UNCHANGED History
    \/ \E r \in ReportRequests : Serve(r) /\ UNCHANGED History
    \/ Respond /\ UNCHANGED History
    \/ \E cid \in Cids : Expire(cid) /\ UNCHANGED History

Spec == Init /\ [][Next]_vars

(***************************************************************************)
(* SpecCas: one request at a time, by clients that keep the ETag of a read *)
(* and send it back as If-Match.  wseq counts the successful writes of a   *)
(* channel, so that a tag carries the write count it was read at.          *)
(***************************************************************************)
CasIds == {Ident("a", KeyLen), Ident("b", KeyLen)}

ServeCas(r) ==
    /\ Serve(r)
    /\ wseq' = IF r.op = "put" /\ resp'.status = 200
               THEN [wseq EXCEPT ![r.cid] = @ + 1]
               ELSE wseq
    /\ held' = IF r.seq >= 0 THEN NoHeld ELSE held    \* a kept tag is sent once
    /\ UNCHANGED <<main, cl, Filtering>>

\* The caller keeps the ETag of the read just answered.
RespondKeep ==
    /\ req.op = "get"
    /\ resp.status = 200
    /\ Respond
    /\ held' = [cid |-> req.cid, tag |-> resp.etag, seq |-> wseq[req.cid]]
    /\ UNCHANGED <<wseq, main, cl, Filtering>>

HeldPut(id, body) ==
    [Req("put", held.cid, id, held.tag, body, NoLog) EXCEPT !.seq = held.seq]

NextCas ==
    \/ \E id \in CasIds : ServeCas(Req("new", NoCid, id, NoTag, "", NoLog))
    \/ \E c \in Cids, id \in CasIds : ServeCas(Req("get", c, id, NoTag, "", NoLog))
    \/ \E c \in Cids, id \in CasIds, b \in Bodies :
            /\ wseq[c] < MaxWrites
            /\ chan[c].exists => b # chan[c].data     \* a write that changes the content
            /\ ServeCas(Req("put", c, id, NoTag, b, NoLog))
    \/ \E id \in CasIds, b \in Bodies :
            /\ held # NoHeld
            /\ wseq[held.cid] < MaxWrites
            /\ ServeCas(HeldPut(id, b))
    \/ Respond /\ UNCHANGED History
    \/ RespondKeep

SpecCas == Init /\ [][NextCas]_vars

(***************************************************************************)
(* SpecConc: several workers, each serving one request, their backend      *)
(* calls interleaved.                                                      *)
(***************************************************************************)
ConcRequests ==
    {Req("new", NoCid, Ident("b", KeyLen), NoTag, "", NoLog)}
        \cup {Req("get", c, id, NoTag, "", NoLog) : c \in Cids, id \in ValidIds}
        \cup {Req("put", c[1], c[2], c[3], "xxx", NoLog) :
                  c \in Cids \X ValidIds \X {NoTag, Etag("")}}
        \cup {Req("report", c, NoId, NoTag, "", "some") : c \in Cids}

Sequential == <<req, resp, calls, pre>>

\* A worker takes a request.
Accept(i, r) ==
    /\ wk[i].pc = "idle"
    /\ wk' = [wk EXCEPT ![i] = [Worker(r) EXCEPT !.late = r.cid \in closed]]
    /\ UNCHANGED <<chan, gets, issued, closed, Sequential, History>>

\* A worker makes the next backend call of its request.
WorkerStep(i) ==
    /\ wk[i].pc \notin {"idle", "done"}
    /\ LET r == Step(TheBackend, wk[i])
       IN /\ Install(r.S)
          /\ wk' = [wk EXCEPT ![i] = r.w]
    /\ UNCHANGED <<Sequential, History>>

\* The response leaves the worker.
Reply(i) ==
    /\ wk[i].pc = "done"
    /\ wk' = [wk EXCEPT ![i] = IdleWorker]
    /\ UNCHANGED <<chan, gets, issued, closed, Sequential, History>>

NextConc ==
    \/ \E i \in Workers, r \in ConcRequests : Accept(i, r)
    \/ \E i \in Workers : WorkerStep(i)
    \/ \E i \in Workers : Reply(i)
    \/ \E cid \in Cids : Expire(cid) /\ UNCHANGED History

SpecConc == Init /\ [][NextConc]_vars

(***************************************************************************)
(* SpecSession: test_session.  The main thread builds the Sender (which    *)
(* creates the channel) and the Receiver, starts the Sender and, half a    *)
(* second later, the Receiver.  Each thread's requests are served in that  *)
(* thread, backend call by backend call, interleaved with the other's.     *)
(* Time is counted in tenths of a second; a request takes no time against  *)
(* the sleeps of the threads, so time passes only when every thread is     *)
(* asleep or has ended.                                                    *)
(***************************************************************************)
PollSleep == 2         \* time.sleep(.2)
StartDelay == 5        \* time.sleep(.5)
MaxAttempts == 10      \* attempts < 10

Failed == 0

Op(kind, msg) == [kind |-> kind, msg |-> msg]

SenderRun ==
    << Op("put", "s1"), Op("wait", ""), Op("put", "s2"), Op("pause", ""),
       Op("wait", ""), Op("put", "data") >>

ReceiverRun ==
    << Op("wait", ""), Op("put", "r1"), Op("wait", ""), Op("put", "r2"),
       Op("wait", "") >>

Program(p) == IF p = Sender THEN SenderRun ELSE ReceiverRun

Ended(p) == cl[p].pc = Failed \/ cl[p].pc > Len(Program(p))

Finished(p) == cl[p].pc > Len(Program(p))

\* Variant: a thread that polls with the empty tag every time.
PollTagEmpty(p) == EmptyTag

\* The tag a thread polls with: the ETag of its own last put ('' before any).
PollTag(p) == cl[p].etag

\* User.__init__ of both threads, bob.start(), and the main thread's sleep
\* before sarah.start().
Construct(sid, rid, delay) ==
    /\ main = "setup"
    /\ LET fin == Run(TheBackend, Worker(Req("new", NoCid, sid, NoTag, "", NoLog)))
       IN /\ fin.w.resp.status = 200
          /\ Install(fin.S)
          /\ cl' = [p \in Parties |->
                      IF p = Sender THEN Client(sid, fin.w.resp.channel, 0)
                      ELSE Client(rid, fin.w.resp.channel, delay)]
    /\ main' = "running"
    /\ UNCHANGED <<Sequential, wk, wseq, held, Filtering>>

Ready(p) ==
    /\ main = "running"
    /\ ~Ended(p)
    /\ cl[p].phase = "ready"
    /\ cl[p].timer = 0

\* app.put(curl, params=msg, headers=headers)
SendPut(p) ==
    /\ Ready(p)
    /\ Program(p)[cl[p].pc].kind = "put"
    /\ wk' = [wk EXCEPT ![p] =
                 Worker(Req("put", cl[p].cid, cl[p].id, NoTag,
                            Program(p)[cl[p].pc].msg, NoLog))]
    /\ cl' = [cl EXCEPT ![p].phase = "inflight"]
    /\ UNCHANGED <<chan, gets, issued, closed, Sequential, wseq, held, main, Filtering>>

\* _wait_data: one turn of the polling loop, or its end after ten 304s.
SendGet(p) ==
    /\ Ready(p)
    /\ Program(p)[cl[p].pc].kind = "wait"
    /\ IF cl[p].attempts < MaxAttempts
       THEN /\ wk' = [wk EXCEPT ![p] =
                        Worker(Req("get", cl[p].cid, cl[p].id, PollTag(p), "", NoLog))]
            /\ cl' = [cl EXCEPT ![p].phase = "inflight"]
       ELSE /\ cl' = [cl EXCEPT ![p].pc = Failed]
            /\ UNCHANGED wk
    /\ UNCHANGED <<chan, gets, issued, closed, Sequential, wseq, held, main, Filtering>>

\* Sender.run: time.sleep(.2) after its second put.
Pause(p) ==
    /\ Ready(p)
    /\ Program(p)[cl[p].pc].kind = "pause"
    /\ cl' = [cl EXCEPT ![p].pc = @ + 1, ![p].timer = PollSleep]
    /\ UNCHANGED <<chan, gets, issued, closed, Sequential, wk, wseq, held, main, Filtering>>

\* The thread's request is served, one backend call at a time.
ServeStep(p) ==
    /\ main = "running"
    /\ cl[p].phase = "inflight"
    /\ WorkerStep(p)

\* The response comes back to the thread.
Receive(p) ==
    /\ main = "running"
    /\ cl[p].phase = "inflight"
    /\ wk[p].pc = "done"
    /\ LET r == wk[p].resp
           me == cl[p]
       IN cl' = [cl EXCEPT ![p] =
            IF wk[p].req.op = "put"
            THEN IF r.status = 200
                 THEN [me EXCEPT !.phase = "ready", !.etag = r.etag, !.pc = @ + 1,
                                 !.sent = Append(@, wk[p].req.body)]
                 ELSE [me EXCEPT !.phase = "ready", !.pc = Failed]
            ELSE IF r.status = 304
                 THEN [me EXCEPT !.phase = "ready", !.attempts = @ + 1,
                                 !.timer = PollSleep]
                 ELSE IF r.status = 200
                 THEN [me EXCEPT !.phase = "ready", !.attempts = 0, !.pc = @ + 1,
                                 !.got = Append(@, r.body)]
                 ELSE [me EXCEPT !.phase = "ready", !.pc = Failed]]
    /\ wk' = [wk EXCEPT ![p] = IdleWorker]
    /\ UNCHANGED <<chan, gets, issued, closed, Sequential, wseq, held, main, Filtering>>

\* A tenth of a second passes once every thread sleeps or has ended.
Tick ==
    /\ main = "running"
    /\ \A p \in Parties : Ended(p) \/ cl[p].timer > 0
    /\ \E p \in Parties : ~Ended(p)
    /\ cl' = [p \in Parties |->
                IF cl[p].timer > 0 THEN [cl[p] EXCEPT !.timer = @ - 1] ELSE cl[p]]
    /\ UNCHANGED <<chan, gets, issued, closed, Sequential, wk, wseq, held, main, Filtering>>

NextSession ==
    \/ \E sid \in ValidIds, rid \in ValidIds, d \in 1..StartDelay :
            Construct(sid, rid, d)
    \/ \E p \in Parties : SendPut(p)
    \/ \E p \in Parties : SendGet(p)
    \/ \E p \in Parties : Pause(p)
    \/ \E p \in Parties : ServeStep(p)
    \/ \E p \in Parties : Receive(p)
    \/ Tick

SpecSession == Init /\ [][NextSession]_vars /\ WF_vars(NextSession)

(***************************************************************************)
(* Blacklist instances sharing the backend key.  On each instance request  *)
(* threads call add, remove, __contains__ and update, each under the       *)
(* instance's lock, and one thread at a time runs save, which keeps the    *)
(* lock over its backend calls.  The backend's answer to a cas is its own: *)
(* either outcome can follow an attempt.                                   *)
(*   SpecBlacklist: the calls of the request threads as time passes, with  *)
(*   saves whose first cas is accepted.                                    *)
(***************************************************************************)
MaxTriesEleven == 10 + 1

MaxTries == 10         \* while tries < 10

Relay == <<chan, gets, issued, closed, Sequential, wk, wseq, held, main, cl>>

\* Variant: a lock that never keeps a request thread out.
LockFreeAlways(i) == TRUE

\* self._lock is free: no save of this instance holds it.
LockFree(i) == sv[i].pc \notin {"cas", "clear", "reload"}

\* No membership check is being looked at.
Quiet == last = NoCall

\* Blacklist(cache_server=None): the instance is built without a backend.
Without(i) ==
    /\ Quiet
    /\ bl[i] = NewBlacklist(TRUE) /\ sv[i] = NoSave
    /\ bl' = [bl EXCEPT ![i] = NewBlacklist(FALSE)]
    /\ UNCHANGED <<Relay, now, store, sv, last, fails, sy, jn>>

Add(i, ip, ttl) ==
    /\ Quiet /\ LockFree(i)
    /\ ttl # None => now + ttl <= MaxTime
    /\ bl' = [bl EXCEPT ![i] = BlAdd(@, ip, ttl, now)]
    /\ UNCHANGED <<Relay, now, store, sv, last, fails, sy, jn>>

Remove(i, ip) ==
    /\ Quiet /\ LockFree(i)
    /\ bl' = [bl EXCEPT ![i] = BlRemove(@, ip)]
    /\ UNCHANGED <<Relay, now, store, sv, last, fails, sy, jn>>

\* ip in blacklist; seen: the check is one whose answer is looked at.
Contains(i, ip, seen) ==
    /\ Quiet /\ LockFree(i)
    /\ LET r == BlContains(bl[i], ip, now)
       IN /\ bl' = [bl EXCEPT ![i] = r.L]
          /\ last' = IF seen THEN Call(i, ip, r.ret, bl[i]) ELSE last
    /\ UNCHANGED <<Relay, now, store, sv, fails, sy, jn>>

Update(i) ==
    /\ Quiet /\ LockFree(i)
    /\ bl' = [bl EXCEPT ![i] = BlUpdate(@, store)]
    /\ UNCHANGED <<Relay, now, store, sv, last, fails, sy, jn>>

Return ==
    /\ ~Quiet
    /\ last' = NoCall
    /\ UNCHANGED <<Relay, now, store, bl, sv, fails, sy, jn>>

Clock ==
    /\ Quiet
    /\ now < MaxTime
    /\ now' = now + 1
    /\ UNCHANGED <<Relay, store, bl, sv, last, fails, sy, jn>>

\* save, line 111: nothing to do without a cache server or a dirty flag.
SaveCall(i) ==
    /\ Quiet
    /\ sv[i].pc = "idle"
    /\ sv' = [sv EXCEPT ![i] =
                 IF ~bl[i].server \/ ~bl[i].dirty
                 THEN NoSave
                 ELSE [NoSave EXCEPT !.pc = "acquire"]]
    /\ UNCHANGED <<Relay, now, store, bl, last, fails, sy, jn>>

\* save, lines 114-117
SaveAcquire(i) ==
    /\ Quiet
    /\ sv[i].pc = "acquire"
    /\ sv' = [sv EXCEPT ![i].pc = "cas"]
    /\ UNCHANGED <<Relay, now, store, bl, last, fails, sy, jn>>

\* save, lines 119-120: the snapshot and its cas.
SaveCas(i, ok, counted) ==
    /\ Quiet
    /\ sv[i].pc = "cas"
    /\ (counted /\ ~ok) => fails < MaxFails
    /\ fails' = IF counted /\ ~ok THEN fails + 1 ELSE fails
    /\ store' = IF ok THEN Data(bl[i].ips, bl[i].ttls) ELSE store
    /\ sv' = [sv EXCEPT ![i].cas = @ + 1,
                        ![i].snap = Data(bl[i].ips, bl[i].ttls),
                        ![i].pc = IF ok THEN "clear" ELSE "reload"]
    /\ UNCHANGED <<Relay, now, bl, last, sy, jn>>

\* save, lines 121-122 and 126
SaveClear(i) ==
    /\ Quiet
    /\ sv[i].pc = "clear"
    /\ bl' = [bl EXCEPT ![i].dirty = FALSE]
    /\ sv' = [sv EXCEPT ![i] = NoSave]
    /\ UNCHANGED <<Relay, now, store, last, fails, sy, jn>>

\* save, lines 123-124, then the loop test of line 118
SaveReload(i) ==
    /\ Quiet
    /\ sv[i].pc = "reload"
    /\ bl' = [bl EXCEPT ![i] = BlUpdate(@, store)]
    /\ sv' = [sv EXCEPT ![i] =
                 IF sv[i].tries + 1 < MaxTries
                 THEN [@ EXCEPT !.tries = @ + 1, !.gets = @ + 1, !.pc = "cas"]
                 ELSE [@ EXCEPT !.tries = @ + 1, !.gets = @ + 1, !.pc = "idle",
                                !.outcome = "gaveup"]]
    /\ UNCHANGED <<Relay, now, store, last, fails, sy, jn>>

\* A whole call of save whose first cas the backend accepts.
Publish(i) ==
    /\ Quiet /\ LockFree(i)
    /\ sv[i].pc = "idle"
    /\ bl[i].server /\ bl[i].dirty
    /\ store' = Data(bl[i].ips, bl[i].ttls)
    /\ bl' = [bl EXCEPT ![i].dirty = FALSE]
    /\ UNCHANGED <<Relay, now, sv, last, fails, sy, jn>>

NextBlacklist ==
    \/ \E i \in Insts, ip \in IPs, ttl \in Ttls \cup {None} : Add(i, ip, ttl) /\ UNCHANGED Hist
    \/ \E i \in Insts, ip \in IPs : Remove(i, ip) /\ UNCHANGED Hist
    \/ \E i \in Insts, ip \in IPs : Contains(i, ip, TRUE) /\ UNCHANGED Hist
    \/ \E i \in Insts : Update(i) /\ UNCHANGED Hist
    \/ \E i \in Insts : Publish(i) /\ UNCHANGED Hist
    \/ Return /\ UNCHANGED Hist
    \/ Clock /\ UNCHANGED Hist

SpecBlacklist == Init /\ [][NextBlacklist]_vars

(***************************************************************************)
(* SpecSave: the retry loop of save, with every answer of the backend to   *)
(* every cas; request threads add addresses without expiry.                *)
(***************************************************************************)
NextSave ==
    \/ \E i \in Insts, ip \in IPs : Add(i, ip, None) /\ UNCHANGED Hist
    \/ \E i \in Insts : SaveCall(i) /\ UNCHANGED Hist
    \/ \E i \in Insts : SaveAcquire(i) /\ UNCHANGED Hist
    \/ \E i \in Insts, ok \in BOOLEAN : SaveCas(i, ok, FALSE) /\ UNCHANGED Hist
    \/ \E i \in Insts : SaveClear(i) /\ UNCHANGED Hist
    \/ \E i \in Insts : SaveReload(i) /\ UNCHANGED Hist

\* The thread inside save goes on: its backend calls return.
Saving(i) ==
    \/ SaveAcquire(i)
    \/ \E ok \in BOOLEAN : SaveCas(i, ok, FALSE)
    \/ SaveClear(i)
    \/ SaveReload(i)

SpecSave ==
    /\ Init
    /\ [][NextSave]_vars
    /\ \A i \in Insts : WF_vars(Saving(i) /\ UNCHANGED Hist)

(***************************************************************************)
(* SpecSyncer: the _Syncer thread of each instance, started by the         *)
(* constructor, and a thread that calls its join.                          *)
(***************************************************************************)
Sets == <<now, store, bl, sv, last, fails>>

\* run, line 63
SyncerRun(i) ==
    /\ sy[i].pc = "started"
    /\ sy' = [sy EXCEPT ![i].running = TRUE, ![i].pc = "test"]
    /\ UNCHANGED <<Relay, Sets, jn>>

\* run, line 64: while self.running
SyncerTest(i) ==
    /\ sy[i].pc = "test"
    /\ sy' = [sy EXCEPT ![i].pc = IF sy[i].running THEN "save" ELSE "exited"]
    /\ UNCHANGED <<Relay, Sets, jn>>

\* run, line 66: self.blacklist.save(), a whole call; published tells
\* whether a cas of it was accepted.
SyncerSave(i, published) ==
    /\ sy[i].pc = "save"
    /\ sv[i].pc = "idle"
    /\ sy' = [sy EXCEPT ![i].pc = "sleep", ![i].late = (jn[i] = "returned")]
    /\ IF bl[i].server /\ bl[i].dirty /\ published
       THEN /\ store' = Data(bl[i].ips, bl[i].ttls)
            /\ bl' = [bl EXCEPT ![i].dirty = FALSE]
       ELSE /\ bl' = [bl EXCEPT ![i] = IF @.dirty THEN BlUpdate(@, store) ELSE @]
            /\ UNCHANGED store
    /\ UNCHANGED <<Relay, now, sv, last, fails, jn>>

\* run, line 67: time.sleep(self.frequency) is over
SyncerWake(i) ==
    /\ sy[i].pc = "sleep"
    /\ sy' = [sy EXCEPT ![i].pc = "test"]
    /\ UNCHANGED <<Relay, Sets, jn>>

\* join, lines 70-72
JoinCall(i) ==
    /\ jn[i] = "idle"
    /\ IF ~sy[i].running
       THEN /\ jn' = [jn EXCEPT ![i] = "returned"]
            /\ UNCHANGED sy
       ELSE /\ sy' = [sy EXCEPT ![i].running = FALSE]
            /\ jn' = [jn EXCEPT ![i] = "waiting"]
    /\ UNCHANGED <<Relay, Sets>>

\* join, line 73: threading.Thread.join returns once run has ended
JoinReturn(i) ==
    /\ jn[i] = "waiting"
    /\ sy[i].pc = "exited"
    /\ jn' = [jn EXCEPT ![i] = "returned"]
    /\ UNCHANGED <<Relay, Sets, sy>>

NextSyncer ==
    \/ \E i \in Insts, ip \in IPs : Add(i, ip, None) /\ UNCHANGED Hist
    \/ \E i \in Insts : SyncerRun(i) /\ UNCHANGED Hist
    \/ \E i \in Insts : SyncerTest(i) /\ UNCHANGED Hist
    \/ \E i \in Insts, published \in BOOLEAN : SyncerSave(i, published) /\ UNCHANGED Hist
    \/ \E i \in Insts : SyncerWake(i) /\ UNCHANGED Hist
    \/ \E i \in Insts : JoinCall(i) /\ UNCHANGED Hist
    \/ \E i \in Insts : JoinReturn(i) /\ UNCHANGED Hist

SpecSyncer == Init /\ [][NextSyncer]_vars

(***************************************************************************)
(* SpecShared: the instances add addresses without expiry, save and        *)
(* update; what is followed is whether each has completed a save and an    *)
(* update since the last add on any of them.                               *)
(***************************************************************************)
SharedAdd(i, ip) ==
    /\ Add(i, ip, None)
    /\ sync' = [j \in Insts |-> NoSync]
    /\ UNCHANGED <<perm, lim, lk>>

\* A call of save run to its return: it publishes, or finds nothing to do.
SharedSave(i) ==
    /\ IF bl[i].dirty THEN Publish(i) ELSE SaveCall(i)
    /\ sync' = [sync EXCEPT ![i].saved = TRUE]
    /\ UNCHANGED <<perm, lim, lk>>

SharedUpdate(i) ==
    /\ Update(i)
    /\ sync' = [sync EXCEPT ![i].pulled = TRUE]
    /\ UNCHANGED <<perm, lim, lk>>

NextShared ==
    \/ \E i \in Insts, ip \in IPs : SharedAdd(i, ip)
    \/ \E i \in Insts : SharedSave(i)
    \/ \E i \in Insts : SharedUpdate(i)

SpecShared == Init /\ [][NextShared]_vars

(***************************************************************************)
(* SpecForever: SpecBlacklist, following which addresses each instance has *)
(* been given with ttl=None and has not since removed or been given again  *)
(* with a ttl.                                                             *)
(***************************************************************************)
ForeverAdd(i, ip, ttl) ==
    /\ Add(i, ip, ttl)
    /\ perm' = IF ttl = None THEN perm \cup {<<i, ip>>} ELSE perm \ {<<i, ip>>}
    /\ UNCHANGED <<sync, lim, lk>>

ForeverRemove(i, ip) ==
    /\ Remove(i, ip)
    /\ perm' = perm \ {<<i, ip>>}
    /\ UNCHANGED <<sync, lim, lk>>

NextForever ==
    \/ \E i \in Insts, ip \in IPs, ttl \in Ttls \cup {None} : ForeverAdd(i, ip, ttl)
    \/ \E i \in Insts, ip \in IPs : ForeverRemove(i, ip)
    \/ \E i \in Insts, ip \in IPs : Contains(i, ip, TRUE) /\ UNCHANGED Hist
    \/ \E i \in Insts : Update(i) /\ UNCHANGED Hist
    \/ \E i \in Insts : Publish(i) /\ UNCHANGED Hist
    \/ Return /\ UNCHANGED Hist
    \/ Clock /\ UNCHANGED Hist

SpecForever == Init /\ [][NextForever]_vars

(***************************************************************************)
(* SpecDirty: the request threads and the save of one instance, backend    *)
(* call by backend call, with the lock between them; the other instances   *)
(* add addresses and publish them.                                         *)
(***************************************************************************)
Watched == 1

NextDirty ==
    \/ Without(Watched) /\ UNCHANGED Hist
    \/ \E i \in Insts, ip \in IPs, ttl \in Ttls \cup {None} : Add(i, ip, ttl) /\ UNCHANGED Hist
    \/ \E ip \in IPs : Remove(Watched, ip) /\ UNCHANGED Hist
    \/ \E ip \in IPs : Contains(Watched, ip, FALSE) /\ UNCHANGED Hist
    \/ Update(Watched) /\ UNCHANGED Hist
    \/ \E i \in Insts \ {Watched} : Publish(i) /\ UNCHANGED Hist
    \/ Clock /\ UNCHANGED Hist
    \/ SaveCall(Watched) /\ UNCHANGED Hist
    \/ SaveAcquire(Watched) /\ UNCHANGED Hist
    \/ \E ok \in BOOLEAN : SaveCas(Watched, ok, TRUE) /\ UNCHANGED Hist
    \/ SaveClear(Watched) /\ UNCHANGED Hist
    \/ SaveReload(Watched) /\ UNCHANGED Hist

SpecDirty == Init /\ [][NextDirty]_vars

(***************************************************************************)
(* SpecLimiter: admission control in front of the handler.  Every request  *)
(* of an address passes is_blocked, then record_attempt, then the handler, *)
(* then record_bad_request when the handler answered 400.                  *)
(***************************************************************************)
Threshold == 2
BadThreshold == 2
Forbidden == 403

IsBlockedNever(L, ip, t) == [L |-> L, ret |-> "False"]

\* is_blocked consults the Blacklist.
IsBlocked(L, ip, t) == BlContains(L, ip, t)

\* The requests the limited addresses send.
Traffic ==
    {r \in NewRequests \cup GetRequests \cup PutRequests :
        /\ r.tag = NoTag
        /\ r.op = "put" => r.body = "xxx"}

Limited == <<wk, wseq, held, main, cl, now, store, sv, last, fails, sy, jn, sync, perm, lk>>

\* A counter crossed its threshold: the address goes to the Blacklist and
\* both of its counters start again.
Promote(L, ip, ttl) ==
    /\ bl' = [bl EXCEPT ![Watched] = BlAdd(L, ip, ttl, now)]
    /\ lim' = [lim EXCEPT !.hits[ip] = 0, !.bads[ip] = 0, !.ip = ip, !.at = now,
                          !.seen = [hits |-> lim.hits[ip], bads |-> lim.bads[ip]],
                          !.pre = bl[Watched]]

Refuse(r) ==
    /\ req' = r
    /\ resp' = Resp(Forbidden, NoTag, "", NoCid)
    /\ calls' = <<>>
    /\ pre' = Snapshot
    /\ UNCHANGED <<chan, gets, issued, closed>>

\* One request of address ip, from admission to response.  ttl is the
\* configured lifetime of a blacklisting; through tells whether the request
\* that makes the attempt counter cross is still handled.
Arrive(ip, r, ttl, through) ==
    LET c == IsBlocked(bl[Watched], ip, now)
        hits == lim.hits[ip] + 1
        fin == Run(TheBackend, Worker(r))
        bads == IF fin.w.resp.status = 400 THEN lim.bads[ip] + 1 ELSE lim.bads[ip]
    IN /\ req = NoReq
       /\ ttl # None => now + ttl <= MaxTime
       /\ IF c.ret = "True"
          THEN /\ Refuse(r)
               /\ bl' = [bl EXCEPT ![Watched] = c.L]
               /\ lim' = [lim EXCEPT !.ip = ip, !.at = now, !.pre = bl[Watched],
                                     !.seen = [hits |-> lim.hits[ip],
                                               bads |-> lim.bads[ip]]]
          ELSE IF hits >= Threshold /\ ~through
          THEN Refuse(r) /\ Promote(c.L, ip, ttl)
          ELSE /\ Install(fin.S)
               /\ req' = r
               /\ resp' = fin.w.resp
               /\ calls' = fin.w.calls
               /\ pre' = Snapshot
               /\ IF hits >= Threshold \/ bads >= BadThreshold
                  THEN Promote(c.L, ip, ttl)
                  ELSE /\ bl' = [bl EXCEPT ![Watched] = c.L]
                       /\ lim' = [lim EXCEPT !.hits[ip] = hits, !.bads[ip] = bads,
                                             !.ip = ip, !.at = now,
                                             !.pre = bl[Watched],
                                             !.seen = [hits |-> lim.hits[ip],
                                                       bads |-> lim.bads[ip]]]
    /\ UNCHANGED Limited

Answered ==
    /\ Respond
    /\ lim' = [lim EXCEPT !.ip = 0, !.at = 0, !.seen = NewLimiter.seen,
                          !.pre = NewLimiter.pre]
    /\ UNCHANGED Limited
    /\ UNCHANGED bl

NextLimiter ==
    \/ \E ip \in IPs, r \in Traffic, ttl \in Ttls \cup {None}, through \in BOOLEAN :
          Arrive(ip, r, ttl, through)
    \/ Answered
    \/ \E ip \in IPs : req = NoReq /\ Remove(Watched, ip) /\ UNCHANGED Hist
    \/ req = NoReq /\ Clock /\ UNCHANGED Hist

SpecLimiter == Init /\ [][NextLimiter]_vars

(***************************************************************************)
(* SpecLock: the threads of one process (the syncer and the request        *)
(* threads) call save, add, remove, update and the membership check on the *)
(* watched instance, statement by statement around the RLock; another      *)
(* instance adds and publishes.                                            *)
(***************************************************************************)
\* Thread 1 is the syncer, which only saves; the others are request threads.
SyncerThread == 1

Methods(t) ==
    IF t = SyncerThread THEN {"save"} ELSE {"save", "add", "remove", "contains"}

CanAcquireAlways(t) == TRUE

\* RLock.acquire: free, or held by the calling thread.
CanAcquire(t) == lk.owner \in {0, t}

Released(t) ==
    [owner |-> IF lk.depth = 1 THEN 0 ELSE t, depth |-> lk.depth - 1]

Untouched == <<Relay, now, sv, last, sy, jn, sync, perm, lim>>

\* A thread calls a method; save returns at line 111-112 without the lock.
Enter(t, op, ip, ttl) ==
    /\ lk.th[t].pc = "idle"
    /\ ttl # None => (op = "add" /\ now + ttl <= MaxTime)
    /\ op = "save" => (bl[Watched].server /\ bl[Watched].dirty)
    /\ lk' = [lk EXCEPT !.th[t] =
                 [NoThread EXCEPT !.pc = "acquire", !.op = op, !.ttl = ttl,
                                  !.ip = IF op = "save" THEN 0 ELSE ip]]
    /\ UNCHANGED <<Untouched, store, bl, fails>>

\* self._lock.acquire()
Acquire(t) ==
    /\ lk.th[t].pc = "acquire"
    /\ CanAcquire(t)
    /\ lk' = [lk EXCEPT !.owner = t, !.depth = @ + 1, !.th[t].pc = "in"]
    /\ UNCHANGED <<Untouched, store, bl, fails>>

\* The thread leaves the method it is in: the finally clause, then the
\* statement after the call when the method was called by save or by the
\* membership check.
Leave(t) ==
    LET me == lk.th[t]
        r == Released(t)
    IN IF me.outer = "save"
       THEN [lk EXCEPT !.owner = r.owner, !.depth = r.depth,
                       !.th[t] = [me EXCEPT !.op = "save", !.outer = "none",
                                            !.tries = @ + 1,
                                            !.pc = IF me.tries + 1 < MaxTries
                                                   THEN "in" ELSE "exit"]]
       ELSE IF me.outer = "contains"
       THEN [lk EXCEPT !.owner = r.owner, !.depth = r.depth,
                       !.th[t] = [me EXCEPT !.op = "contains", !.outer = "none",
                                            !.pc = "exit"]]
       ELSE [lk EXCEPT !.owner = r.owner, !.depth = r.depth, !.th[t] = NoThread]

\* The method ends with a KeyError: the finally clause releases the lock and
\* the caller keeps the error.
Raise(t) ==
    LET r == Released(t)
    IN [lk EXCEPT !.owner = r.owner, !.depth = r.depth,
                  !.th[t] = [NoThread EXCEPT !.raised = TRUE, !.op = lk.th[t].op,
                                             !.ip = lk.th[t].ip]]

\* The next statements of the thread that holds the lock.
Locked(t, ok) ==
    LET me == lk.th[t]
        L == bl[Watched]
    IN /\ me.pc \in {"in", "result", "exit"}
       /\ IF me.pc = "exit"
          THEN lk' = Leave(t) /\ UNCHANGED <<bl, store, fails>>
          ELSE IF me.pc = "result"
          THEN IF me.ok
               THEN /\ bl' = [bl EXCEPT ![Watched].dirty = FALSE]
                    /\ lk' = [lk EXCEPT !.th[t].pc = "exit"]
                    /\ UNCHANGED <<store, fails>>
               ELSE /\ lk' = [lk EXCEPT !.th[t].pc = "acquire",
                                        !.th[t].op = "update",
                                        !.th[t].outer = "save"]
                    /\ UNCHANGED <<bl, store, fails>>
          ELSE IF me.op = "save"
          THEN /\ ~ok => fails < MaxFails
               /\ fails' = IF ok THEN fails ELSE fails + 1
               /\ store' = IF ok THEN Data(L.ips, L.ttls) ELSE store
               /\ lk' = [lk EXCEPT !.th[t].pc = "result", !.th[t].ok = ok,
                                   !.th[t].snap = Data(L.ips, L.ttls)]
               /\ UNCHANGED bl
          ELSE IF me.op = "contains"
          THEN /\ lk' = IF ContainsRaises(L, me.ip) THEN Raise(t)
                        ELSE IF /\ me.ip \in L.ips
                                /\ L.ttls[me.ip] # None
                                /\ Expired(L.ttls[me.ip], now)
                        THEN [lk EXCEPT !.th[t].pc = "acquire",
                                        !.th[t].op = "remove",
                                        !.th[t].outer = "contains"]
                        ELSE Leave(t)
               /\ UNCHANGED <<bl, store, fails>>
          ELSE /\ bl' = [bl EXCEPT ![Watched] =
                            IF me.op = "add" THEN BlAdd(L, me.ip, me.ttl, now)
                            ELSE IF me.op = "remove" THEN BlRemove(L, me.ip)
                            ELSE BlUpdate(L, store)]
               /\ lk' = IF me.op = "remove" /\ RemoveRaises(L, me.ip)
                        THEN Raise(t) ELSE Leave(t)
               /\ UNCHANGED <<store, fails>>
       /\ UNCHANGED Untouched

Proceeds(t) == Acquire(t) \/ \E ok \in BOOLEAN : Locked(t, ok)

NextLock ==
    \/ \E t \in Threads, ip \in IPs, ttl \in Ttls \cup {None} :
          \E op \in Methods(t) : Enter(t, op, ip, ttl)
    \/ \E t \in Threads : Acquire(t)
    \/ \E t \in Threads, ok \in BOOLEAN : Locked(t, ok)
    \/ \E i \in Insts \ {Watched}, ip \in IPs : Add(i, ip, None) /\ UNCHANGED Hist
    \/ \E i \in Insts \ {Watched} : Publish(i) /\ UNCHANGED Hist
    \/ Clock /\ UNCHANGED Hist

SpecLock == Init /\ [][NextLock]_vars

(***************************************************************************)
(* SpecPublish: the syncer of the watched instance, never stopped, with    *)
(* its save taken backend call by backend call, while request threads add. *)
(* The thread keeps being scheduled, its backend calls return, and a cas   *)
(* that is attempted again and again is accepted in the end.               *)
(***************************************************************************)
\* run, line 66: the call of save and its test of line 111.
SyncerCall(i) ==
    /\ sy[i].pc = "save"
    /\ sv[i].pc = "idle"
    /\ IF ~bl[i].server \/ ~bl[i].dirty
       THEN /\ sy' = [sy EXCEPT ![i].pc = "sleep"]
            /\ sv' = [sv EXCEPT ![i] = NoSave]
       ELSE /\ sy' = [sy EXCEPT ![i].pc = "saving"]
            /\ sv' = [sv EXCEPT ![i] = [NoSave EXCEPT !.pc = "acquire"]]
    /\ UNCHANGED <<Relay, now, store, bl, last, fails, jn>>

SyncerBackStops(i) ==
    /\ sy[i].pc = "saving"
    /\ sv[i].pc = "idle"
    /\ sy' = [sy EXCEPT ![i].pc = IF sv[i].outcome = "gaveup" THEN "exited" ELSE "sleep"]
    /\ UNCHANGED <<Relay, Sets, jn>>

\* run, lines 66-67: save has returned, with or without a publish.
SyncerBack(i) ==
    /\ sy[i].pc = "saving"
    /\ sv[i].pc = "idle"
    /\ sy' = [sy EXCEPT ![i].pc = "sleep"]
    /\ UNCHANGED <<Relay, Sets, jn>>

SyncerStep(i) ==
    \/ SyncerRun(i) \/ SyncerTest(i) \/ SyncerCall(i) \/ SyncerBack(i)
    \/ SyncerWake(i) \/ Saving(i)

NextPublish ==
    \/ \E i \in Insts, ip \in IPs : Add(i, ip, None) /\ UNCHANGED Hist
    \/ \E i \in Insts \ {Watched} : Publish(i) /\ UNCHANGED Hist
    \/ SyncerRun(Watched) /\ UNCHANGED Hist
    \/ SyncerTest(Watched) /\ UNCHANGED Hist
    \/ SyncerCall(Watched) /\ UNCHANGED Hist
    \/ SyncerBack(Watched) /\ UNCHANGED Hist
    \/ SyncerWake(Watched) /\ UNCHANGED Hist
    \/ SaveAcquire(Watched) /\ UNCHANGED Hist
    \/ \E ok \in BOOLEAN : SaveCas(Watched, ok, FALSE) /\ UNCHANGED Hist
    \/ SaveClear(Watched) /\ UNCHANGED Hist
    \/ SaveReload(Watched) /\ UNCHANGED Hist

SpecPublish ==
    /\ Init
    /\ [][NextPublish]_vars
    /\ WF_vars(SyncerStep(Watched) /\ UNCHANGED Hist)
    /\ SF_vars(SaveCas(Watched, TRUE, FALSE) /\ UNCHANGED Hist)

(***************************************************************************)
(* What a served request saw and left (Spec)                               *)
(***************************************************************************)
Addressed == req.cid \in Cids

Before == IF Addressed THEN pre.chan[req.cid] ELSE NoChannel

After == IF Addressed THEN chan[req.cid] ELSE NoChannel

PollsBefore == IF Addressed THEN pre.gets[req.cid] ELSE 0

PollsAfter == IF Addressed THEN gets[req.cid] ELSE 0

OnChannel == req.op \in {"get", "put"}

\* The caller is a participant of the channel, or becomes its second one.
Admitted ==
    /\ OnChannel
    /\ ValidClientId(req.id)
    /\ Before.exists
    /\ (req.id \in SeqRange(Before.ids) \/ Len(Before.ids) < 2)

\* A get or put by a correctly sized identifier on an id without record: 404.
AbsentIs404 ==
    (OnChannel /\ ValidClientId(req.id) /\ ~Before.exists) => resp.status = 404

OthersUntouched ==
    \A c \in Cids \ {req.cid} : chan[c] = pre.chan[c] /\ gets[c] = pre.gets[c]

(***************************************************************************)
(* C1: a put whose If-Match tag is the channel's current version answers   *)
(* 200 with the new version, which is the version of the stored content; a *)
(* put whose If-Match tag is any other tag answers 412 with the channel's  *)
(* current version and leaves content and version as they were.            *)
(***************************************************************************)
C1_ConditionalPut ==
    (req.op = "put" /\ req.tag # NoTag /\ Admitted) =>
        IF req.tag = Before.etag
        THEN /\ resp.status = 200
             /\ resp.etag = Etag(req.body)
             /\ After.exists
             /\ After.data = req.body
             /\ After.etag = resp.etag
        ELSE /\ resp.status = 412
             /\ resp.etag = Before.etag
             /\ After.exists
             /\ After.data = Before.data
             /\ After.etag = Before.etag

\* A put with a stale tag that would have changed the content was refused.
C1_Witness ==
    /\ req.op = "put"
    /\ Admitted
    /\ req.tag = Etag("")
    /\ Before.data = "xxx"
    /\ req.body = ""
    /\ resp.status = 412

(***************************************************************************)
(* C3: a read by an admitted caller whose If-None-Match tag is the         *)
(* channel's version answers 304 and leaves the poll counter, the content  *)
(* and the version exactly as they were.                                   *)
(***************************************************************************)
C3_ConditionalReadIsFree ==
    (req.op = "get" /\ Admitted /\ req.tag = Before.etag) =>
        /\ resp.status = 304
        /\ PollsAfter = PollsBefore
        /\ After.exists
        /\ After.data = Before.data
        /\ After.etag = Before.etag

\* A 304 on a channel one read away from the poll ceiling.
C3_Witness ==
    /\ req.op = "get"
    /\ resp.status = 304
    /\ PollsBefore = 5
    /\ PollsAfter = 5
    /\ After.exists

(***************************************************************************)
(* C4: with a poll ceiling of 6, every read that is not a conditional hit  *)
(* answers 200 with the content; the counter of a new channel starts at 0  *)
(* and is i after the i-th such read for i < 6; the 6th read still answers *)
(* 200 with the content and leaves no channel, so the next request on that *)
(* id answers 404.                                                         *)
(***************************************************************************)
C4_PollCeiling ==
    LET N == 6
    IN /\ \A c \in Cids : gets[c] < N
       /\ (req.op = "new" /\ resp.status = 200) => gets[resp.channel] = 0
       /\ (req.op = "get" /\ Admitted /\ req.tag # Before.etag) =>
            /\ resp.status = 200
            /\ resp.body = Before.data
            /\ resp.etag = Before.etag
            /\ IF PollsBefore + 1 < N
               THEN After.exists /\ PollsAfter = PollsBefore + 1
               ELSE ~After.exists
       /\ AbsentIs404

\* The sixth read: answered with the content, and the channel is gone.
C4_Witness ==
    /\ req.op = "get"
    /\ req.tag = NoTag
    /\ PollsBefore = 5
    /\ resp.status = 200
    /\ resp.body = "xxx"
    /\ ~After.exists

(***************************************************************************)
(* C5: a channel records its creator and at most one other identifier; a   *)
(* get or put by a third correctly sized identifier answers 400 and        *)
(* removes the channel; a removed channel never has a record again, and    *)
(* every later get or put on it by a correctly sized identifier answers    *)
(* 404.                                                                    *)
(***************************************************************************)
ThirdParty ==
    /\ OnChannel
    /\ ValidClientId(req.id)
    /\ Before.exists
    /\ Len(Before.ids) = 2
    /\ req.id \notin SeqRange(Before.ids)

C5_ThirdIdentity ==
    /\ \A c \in Cids : chan[c].exists =>
            /\ Len(chan[c].ids) \in {1, 2}
            /\ Cardinality(SeqRange(chan[c].ids)) = Len(chan[c].ids)
    /\ ThirdParty => (resp.status = 400 /\ ~After.exists /\ req.cid \in closed)
    /\ \A c \in closed : ~chan[c].exists
    /\ AbsentIs404

\* A third identifier was refused on a channel holding two others.
C5_Witness ==
    /\ ThirdParty
    /\ req.op = "get"
    /\ resp.status = 400
    /\ ~After.exists

(***************************************************************************)
(* C6: a create, get or put whose identifier is missing or is not exactly  *)
(* 256 long answers 400, on an existing channel as on a missing one.       *)
(***************************************************************************)
C6_BadIdentifier ==
    (req.op \in {"new", "get", "put"} /\ (req.id = NoId \/ IdLen(req.id) # 256)) =>
        resp.status = 400

\* A put with an identifier one too long, on an existing channel.
C6_Witness ==
    /\ req.op = "put"
    /\ IdLen(req.id) = 257
    /\ Before.exists
    /\ resp.status = 400

(***************************************************************************)
(* C7: requests rejected for a validation error.                           *)
(***************************************************************************)
ValidationError ==
    \/ req.op \in {"new", "get", "put"} /\ ~ValidClientId(req.id)
    \/ req.op = "report" /\ req.hdr = NoLog /\ req.body = ""

C9_Report ==
    /\ req.op = "report" =>
         IF req.hdr = NoLog /\ req.body = ""
         THEN resp.status = 400 /\ calls = <<>>
         ELSE /\ resp.status = 200
              /\ calls = << IF req.hdr = NoLog THEN <<req.body>>
                            ELSE IF req.body = "" THEN <<req.hdr>>
                            ELSE <<req.hdr, req.body>> >>
              /\ ~After.exists
              /\ (Before.exists => req.cid \in closed)
    /\ \A c \in closed : ~chan[c].exists
    /\ AbsentIs404

\* A report with header and body removed the channel it named.
C9_Witness ==
    /\ req.op = "report"
    /\ Before.exists
    /\ resp.status = 200
    /\ calls = << <<"some", "more">> >>
    /\ ~After.exists

(***************************************************************************)
(* C2 as claimed: a put that carries the tag of an earlier read succeeds   *)
(* only if no successful write to the channel happened between that read   *)
(* and the put, also when the writes in between brought the content back   *)
(* to what the read saw.                                                   *)
(***************************************************************************)
C2_NoInterveningWrite ==
    (req.op = "put" /\ req.seq >= 0 /\ resp.status = 200) =>
        wseq[req.cid] = req.seq + 1

(***************************************************************************)
(* C8 as claimed: an id whose record was removed (report, teardown or      *)
(* expiry) never has a record again, whatever get and put requests were in *)
(* flight, and every get or put taken after the removal answers 404.       *)
(***************************************************************************)
C8_NoResurrection ==
    /\ \A c \in closed : ~chan[c].exists
    /\ \A i \in Workers :
          (wk[i].pc = "done" /\ wk[i].late /\ wk[i].req.op \in {"get", "put"}) =>
              wk[i].resp.status = 404

(***************************************************************************)
(* C10: in the session of test_session no thread fails; a poll never hands *)
(* a thread one of its own messages: each thread receives the other's      *)
(* messages, all of them and in the order they were written, so a message  *)
(* that is no longer the channel's content has been read by the other      *)
(* party; until the Receiver has read the Sender's final data the channel  *)
(* exists, with at most five counted reads and two identifiers; and both   *)
(* threads end their run.                                                  *)
(***************************************************************************)
Other(p) == IF p = Sender THEN Receiver ELSE Sender

Messages(p) == IF p = Sender THEN <<"s1", "s2", "data">> ELSE <<"r1", "r2">>

IsPrefix(s, t) == Len(s) <= Len(t) /\ \A i \in 1..Len(s) : s[i] = t[i]

SessionCid == cl[Sender].cid

SessionSafe ==
    main = "running" =>
        /\ \A p \in Parties :
              /\ cl[p].pc # Failed
              /\ cl[p].attempts < 10
              /\ IsPrefix(cl[p].got, Messages(Other(p)))
              /\ IsPrefix(cl[p].sent, Messages(p))
              /\ \A i \in 1..Len(cl[p].sent) :
                    cl[p].sent[i] # chan[SessionCid].data =>
                        \E j \in 1..Len(cl[Other(p)].got) :
                            cl[Other(p)].got[j] = cl[p].sent[i]
        /\ ~Finished(Receiver) =>
              /\ chan[SessionCid].exists
              /\ gets[SessionCid] <= 5
              /\ Len(chan[SessionCid].ids) <= 2
              /\ SessionCid \notin closed

SessionDone ==
    /\ main = "running"
    /\ \A p \in Parties : Finished(p)
    /\ cl[Receiver].got = <<"s1", "s2", "data">>
    /\ cl[Sender].got = <<"r1", "r2">>

C10_Session == []SessionSafe /\ <>SessionDone

\* Both threads have ended, five reads were counted, two identifiers used.
C10_Witness ==
    /\ SessionDone
    /\ gets[SessionCid] = 5
    /\ Len(chan[SessionCid].ids) = 2
    /\ cl[Sender].sent = <<"s1", "s2", "data">>

(***************************************************************************)
(* C11: a membership check answers True exactly when the address is in the *)
(* local set with no expiry or an expiry still ahead, and then changes     *)
(* nothing; for an absent address it answers False and changes nothing;    *)
(* for an address whose expiry is now or past it answers False, takes the  *)
(* address out of the IP set and the TTL map (the length drops by one, the *)
(* other addresses stay, the next check answers False) and sets the dirty  *)
(* flag.                                                                   *)
(***************************************************************************)
Checked == bl[last.inst]

Present == last.ip \in last.pre.ips

Live ==
    /\ Present
    /\ \/ last.pre.ttls[last.ip] = None
       \/ last.pre.ttls[last.ip] > now

C11_MembershipCheck ==
    ~Quiet =>
        /\ last.ret = "True" <=> Live
        /\ last.ret \in {"True", "False"}
        /\ (Live \/ ~Present) => Checked = last.pre
        /\ (Present /\ ~Live) =>
              /\ last.ip \notin Checked.ips
              /\ Checked.ttls[last.ip] = NoEntry
              /\ Cardinality(Checked.ips) = Cardinality(last.pre.ips) - 1
              /\ Checked.dirty
              /\ \A ip \in IPs \ {last.ip} :
                    /\ ip \in Checked.ips <=> ip \in last.pre.ips
                    /\ Checked.ttls[ip] = last.pre.ttls[ip]
              /\ BlContains(Checked, last.ip, now).ret = "False"

\* An expired entry has just been checked, on an instance that was clean.
C11_Witness ==
    /\ ~Quiet
    /\ Present /\ ~Live
    /\ ~last.pre.dirty
    /\ last.ret = "False"

(***************************************************************************)
(* C12: when update returns after reading a snapshot from the backend, the *)
(* local IP set is its previous value together with the snapshot's         *)
(* addresses, each with the snapshot's TTL entry.                          *)
(***************************************************************************)
C12_UpdateMerges ==
    [][\A i \in Insts :
          (Update(i) /\ bl[i].server /\ store.present) =>
              /\ bl'[i].ips = bl[i].ips \cup store.ips
              /\ \A ip \in store.ips : bl'[i].ttls[ip] = store.ttls[ip]]_vars

(***************************************************************************)
(* C13: once every instance has completed a save and an update after the   *)
(* last add made on any of them, every address added on any instance is in *)
(* the backend's snapshot and in every instance's local set.               *)
(***************************************************************************)
AddedSomewhere == UNION {bl[i].ips : i \in Insts}

AllSynced == \A i \in Insts : sync[i].saved /\ sync[i].pulled

C13_Convergence ==
    AllSynced =>
        /\ AddedSomewhere \subseteq store.ips
        /\ \A i \in Insts : AddedSomewhere \subseteq bl[i].ips

(***************************************************************************)
(* C14: once a call of _Syncer.join has returned, the thread's loop has    *)
(* exited and the thread has made no save since the return.                *)
(***************************************************************************)
C14_JoinStops ==
    \A i \in Insts :
        jn[i] = "returned" => (sy[i].pc = "exited" /\ ~sy[i].late)

(***************************************************************************)
(* C15: a membership check of an address that the instance was given with  *)
(* ttl=None, and has not removed or been given again with a ttl since,     *)
(* answers True.                                                           *)
(***************************************************************************)
C15_NoExpiryStaysBlocked ==
    (~Quiet /\ <<last.inst, last.ip>> \in perm) => last.ret = "True"

\* What the admitted request met: the address listed and not yet expired.
WasBlocked ==
    /\ lim.ip \in lim.pre.ips
    /\ \/ lim.pre.ttls[lim.ip] = None
       \/ lim.pre.ttls[lim.ip] > lim.at

Crossed ==
    \/ lim.seen.hits + 1 >= Threshold
    \/ resp.status = 400 /\ lim.seen.bads + 1 >= BadThreshold

RejectedUntouched ==
    /\ resp.status = Forbidden
    /\ calls = <<>>
    /\ chan = pre.chan
    /\ gets = pre.gets

C16_Admission ==
    lim.ip # 0 =>
        /\ WasBlocked => RejectedUntouched
        /\ (~WasBlocked /\ Crossed) =>
              /\ lim.ip \in bl[Watched].ips
              /\ lim.hits[lim.ip] = 0
              /\ lim.bads[lim.ip] = 0
              /\ IsBlocked(bl[Watched], lim.ip, lim.at).ret = "True"

C16_Stays ==
    \A ip \in IPs :
        (ip \in bl[Watched].ips /\ ip \notin bl'[Watched].ips) =>
            \/ Remove(Watched, ip)
            \/ Expired(bl[Watched].ttls[ip], now)

Served(c) ==
    {wk[i].req.id : i \in {j \in Workers :
        /\ wk[j].pc = "done"
        /\ wk[j].req.cid = c
        /\ wk[j].req.op \in {"get", "put"}
        /\ wk[j].resp.status \in {200, 304}}}

\* C17: whatever the interleaving of the gets and puts in flight, a channel
\* records at most two identifiers, and the identifiers recorded together
\* with those just answered with success on it are at most two.
C17_TwoParticipants ==
    \A c \in Cids :
        /\ Len(chan[c].ids) <= 2
        /\ Cardinality(SeqRange(chan[c].ids) \cup Served(c)) <= 2

\* One step in the life of channel c: the record is there before and after.
VersionFollowsContent(c) ==
    (chan[c].exists /\ chan'[c].exists) =>
        /\ chan'[c].etag # chan[c].etag <=> chan'[c].data # chan[c].data
        /\ chan'[c].etag = Etag(chan'[c].data)

CounterGrows(c) == (chan[c].exists /\ chan'[c].exists) => gets'[c] >= gets[c]

\* C18: in every step of a channel's life the version changes exactly when
\* the content changes, whatever else the step writes (a participant, the
\* poll counter), and the poll counter does not decrease.
C18_VersionAndCounter ==
    [][\A c \in Cids : VersionFollowsContent(c) /\ CounterGrows(c)]_vars

\* A step in which a request thread adds to or removes from the watched
\* Blacklist (an expired address found by a membership check included).
Mutates ==
    \/ bl'[Watched].ips # bl[Watched].ips
    \/ \E ip \in IPs, ttl \in Ttls \cup {None} : Add(Watched, ip, ttl)
    \/ \E ip \in bl[Watched].ips : Remove(Watched, ip)
    \/ \E ip \in bl[Watched].ips :
          /\ bl[Watched].ttls[ip] # None
          /\ Expired(bl[Watched].ttls[ip], now)
          /\ Contains(Watched, ip, FALSE)

Clears == bl[Watched].dirty /\ ~bl'[Watched].dirty

InSave == sv[Watched].pc \in {"cas", "clear", "reload"}

BackendCall ==
    \/ store' # store
    \/ sv'[Watched].cas # sv[Watched].cas
    \/ sv'[Watched].gets # sv[Watched].gets

C19_Step ==
    /\ Mutates => bl'[Watched].dirty
    /\ Clears =>
          /\ sv[Watched].pc = "clear"
          /\ sv[Watched].cas = sv[Watched].tries + 1
          /\ sv[Watched].snap = Data(bl[Watched].ips, bl[Watched].ttls)
          /\ bl'[Watched].ips = bl[Watched].ips
          /\ bl'[Watched].ttls = bl[Watched].ttls
    /\ (InSave /\ sv[Watched].snap.present) =>
          sv[Watched].snap.ips = bl[Watched].ips
    /\ (SaveCall(Watched) /\ (~bl[Watched].server \/ ~bl[Watched].dirty)) =>
          /\ sv'[Watched] = NoSave
          /\ ~BackendCall

\* C19: every add and every removal (an expired address dropped by a
\* membership check included) leaves the dirty flag set; the flag is cleared
\* only by save, in the step after the cas that published the snapshot, and
\* the local set and expiries are then still the ones of that snapshot;
\* a save on a Blacklist that is not dirty or has no cache server makes no
\* backend call.
C19_DirtyFlag ==
    /\ [](InSave => bl[Watched].server /\ bl[Watched].dirty)
    /\ [][C19_Step]_vars

C19_Witness ==
    /\ sv[Watched].pc = "clear"
    /\ sv[Watched].tries > 0
    /\ bl[Watched].dirty
    /\ store = sv[Watched].snap
    /\ store.ips # {}

\* Where the retry loop of instance i stands.
LoopShape(i) ==
    /\ sv[i].cas <= 10
    /\ sv[i].pc = "cas" => (sv[i].tries < 10 /\ sv[i].cas = sv[i].tries /\ sv[i].gets = sv[i].tries)
    /\ sv[i].pc = "reload" => (sv[i].cas = sv[i].tries + 1 /\ sv[i].gets = sv[i].tries)
    /\ sv[i].pc = "clear" => (sv[i].cas = sv[i].tries + 1 /\ sv[i].gets = sv[i].tries)
    /\ sv[i].pc # "idle" => (bl[i].server /\ bl[i].dirty)

GaveUp(i) ==
    sv[i].outcome = "gaveup" =>
        /\ sv[i].pc = "idle"
        /\ LockFree(i)
        /\ sv[i].cas = 10
        /\ sv[i].gets = 10
        /\ bl[i].dirty

\* The accepted cas is the last one: the save clears the flag and returns.
StopsAtSuccess(i) ==
    (sv[i].pc = "clear" /\ sv'[i] # sv[i]) =>
        (sv'[i].pc = "idle" /\ ~bl'[i].dirty /\ store' = store)

\* C20: a save of a dirty Blacklist makes at most 10 cas attempts, pulls the
\* backend's snapshot after each refused attempt before the next one, makes
\* no attempt after the first accepted one, and always returns; after ten
\* refusals it has returned with the flag still set and the lock free.
C20_SaveRetries ==
    /\ [](\A i \in Insts : LoopShape(i) /\ GaveUp(i))
    /\ [][\A i \in Insts : StopsAtSuccess(i)]_vars
    /\ \A i \in Insts : (sv[i].pc = "acquire") ~> (sv[i].pc = "idle")

C20_Witness ==
    \E i \in Insts :
        /\ sv[i].outcome = "gaveup"
        /\ sv[i].cas = 10
        /\ bl[i].dirty
        /\ sv[i].pc = "idle"

\* A step in which the watched instance pulls: update called by a request
\* thread or by save after a refused cas.
Pulls == Update(Watched) \/ SaveReload(Watched)

C21_Step ==
    Pulls =>
        /\ bl[Watched].ips \subseteq bl'[Watched].ips
        /\ bl'[Watched].dirty = bl[Watched].dirty
        /\ bl'[Watched].server = bl[Watched].server
        /\ (~bl[Watched].server \/ ~store.present) => bl'[Watched] = bl[Watched]

\* C21: a pull removes no address from the local set, whether the snapshot
\* lists it or not, and leaves the dirty flag as it was; without a cache
\* server or without a stored snapshot it changes nothing.
C21_UpdateKeeps == [][C21_Step]_vars

\* The watched instance has merged a snapshot that lacks one of its own
\* addresses: it holds the expiry of an address only another instance added.
C21_Witness ==
    /\ store.present
    /\ \E ip \in bl[Watched].ips : ip \notin store.ips
    /\ \E ip \in IPs \ bl[Watched].ips :
          ip \in store.ips /\ bl[Watched].ttls[ip] # NoEntry

Inside(t) == lk.th[t].pc \in {"in", "result", "exit"}

\* A request thread waits only for the lock, and the thread that holds the
\* lock can take its next step.
NoDeadlock ==
    \A t \in Threads :
        lk.th[t].pc # "idle" =>
            \/ ENABLED Proceeds(t)
            \/ lk.owner \notin {0, t} /\ ENABLED Proceeds(lk.owner)

OnePublish ==
    /\ \A t \in Threads : (Inside(t) \/ lk.th[t].outer # "none") <=> lk.owner = t
    /\ \A t, u \in Threads : (Inside(t) /\ Inside(u)) => t = u
    /\ \A t \in Threads :
          lk.th[t].pc = "result" =>
              lk.th[t].snap = Data(bl[Watched].ips, bl[Watched].ttls)
    /\ NoDeadlock

\* While a thread is inside save, from the loop's first statement to the
\* release, no other thread changes the watched instance.
NothingBetween ==
    \A t \in Threads :
        (lk.owner = t /\ lk'.th[t] = lk.th[t]) => bl'[Watched] = bl[Watched]

\* C22: the lock is held by exactly the thread that is inside a method, so
\* one thread at a time is inside the retry loop of save, the snapshot of a
\* cas attempt is still the local state when its result is recorded, no
\* other thread's add or remove takes effect while the lock is held, and a
\* thread that is not idle is never stuck: the calls a method makes on the
\* same instance (save to update, the membership check to remove) go on.
C22_OnePublish == []OnePublish /\ [][NothingBetween]_vars

\* One thread inside save after a refused cas and its nested update, the
\* other waiting for the lock with an add.
C22_Witness ==
    \E t, u \in Threads :
        /\ lk.th[t].pc = "result"
        /\ lk.th[t].tries > 0
        /\ lk.th[u].pc = "acquire"
        /\ lk.th[u].op = "add"

\* C23: with the syncer running and never stopped, a dirty Blacklist is
\* eventually published and its flag cleared, and after a save that gave up
\* on its tenth refusal the syncer calls save again and attempts a cas.
C23_EventuallyPublished ==
    /\ bl[Watched].dirty ~> ~bl[Watched].dirty
    /\ (sv[Watched].outcome = "gaveup") ~> (sv[Watched].pc = "cas")
    /\ [](sy[Watched].pc # "exited")

\* The syncer sleeps after a save that gave up, the flag still set.
C23_Witness ==
    /\ sv[Watched].outcome = "gaveup"
    /\ sv[Watched].cas = 10
    /\ sy[Watched].pc = "sleep"
    /\ bl[Watched].dirty

\* Every address of the set has an entry in the TTL map.
Keyed(L) == \A ip \in L.ips : L.ttls[ip] # NoEntry

\* A thread whose call ended with a KeyError: it was a remove.
OnlyRemoveRaises ==
    \A t \in Threads :
        lk.th[t].raised =>
            /\ lk.th[t].op = "remove"
            /\ lk.th[t].pc = "idle"
            /\ lk.owner # t

\* The step of remove on an address that is not in the set.
RemoveAbsent ==
    \A t \in Threads :
        (/\ lk.th[t].pc = "in"
         /\ lk.th[t].op = "remove"
         /\ lk.th[t].ip \notin bl[Watched].ips
         /\ lk'.th[t] # lk.th[t]) =>
            /\ lk'.th[t].raised
            /\ lk'.th[t].pc = "idle"
            /\ lk'.owner = 0
            /\ bl'[Watched] = bl[Watched]

\* C24: after any interleaving of add, remove, membership checks, update
\* and save every address of the local set has an entry in the TTL map, so
\* no membership check ends with a KeyError; a remove of an address that is
\* not in the set ends with a KeyError, the set, the TTL map and the dirty
\* flag as they were and the lock released.
C24_KeysAndRemove ==
    /\ [](\A i \in Insts : Keyed(bl[i]))
    /\ []OnlyRemoveRaises
    /\ [][RemoveAbsent]_vars

\* A remove of an absent address has raised while the set holds another
\* address whose expiry came from a pull.
C24_Witness ==
    \E t \in Threads :
        /\ lk.th[t].raised
        /\ lk.th[t].ip \notin bl[Watched].ips
        /\ bl[Watched].ips # {}
        /\ bl[Watched].ttls[lk.th[t].ip] # NoEntry
        /\ lk.owner = 0

====
